---- MODULE Spec2Model ----
(***************************************************************************)
(* Model of dwave_appdirs (src/dwave_appdirs/dwave_appdirs.py): the         *)
(* resolution of per-application directories and their optional creation.   *)
(*                                                                          *)
(* Python strings are sequences of tokens.  The characters the code         *)
(* inspects ("/", "\\", ":", "~", "_") are tokens of their own; every other *)
(* token is an inert run of characters (a name such as ".local" or "app").  *)
(* The Python value None is the one-token sequence None.                    *)
(*                                                                          *)
(* The filesystem is a set of directories and a set of non-directory        *)
(* entries, each named by its key: the sequence of names from the root.     *)
(***************************************************************************)
EXTENDS Integers, Sequences, FiniteSets, TLC

VARIABLES sys_platform, in_venv, environ, app, fs, fs_before, last, ncalls, callers

vars == <<sys_platform, in_venv, environ, app, fs, fs_before, last, ncalls, callers>>

-----------------------------------------------------------------------------
(* Bounds *)

\* number of accessor calls in one behaviour
MaxCalls == 1

\* number of times the last call is made once more
MaxAgain == 1

\* number of callers that run an accessor at the same time
NCallers == 2

-----------------------------------------------------------------------------
(* Strings *)

None == <<"<None>">>

Last(s) == s[Len(s)]

StartsWith(s, c) == Len(s) >= 1 /\ s[1] = c

EndsWith(s, c) == Len(s) >= 1 /\ Last(s) = c

\* s.rstrip(c)
RECURSIVE RStrip(_, _)
RStrip(s, c) ==
    IF EndsWith(s, c) THEN RStrip(SubSeq(s, 1, Len(s) - 1), c) ELSE s

\* index of the first token of s, from position i on, that is in cs; Len(s) + 1 if none
RECURSIVE Find(_, _, _)
Find(s, cs, i) ==
    IF i > Len(s) THEN Len(s) + 1
    ELSE IF s[i] \in cs THEN i
    ELSE Find(s, cs, i + 1)

\* s.split(c), with any token of cs as the separator: never empty
RECURSIVE SplitOn(_, _)
SplitOn(s, cs) ==
    LET i == Find(s, cs, 1)
    IN  IF i > Len(s) THEN <<s>>
        ELSE <<SubSeq(s, 1, i - 1)>> \o SplitOn(SubSeq(s, i + 1, Len(s)), cs)

\* the non-empty elements of a sequence of strings
RECURSIVE NonEmpty(_)
NonEmpty(ss) ==
    IF ss = <<>> THEN <<>>
    ELSE IF Head(ss) = <<>> THEN NonEmpty(Tail(ss))
    ELSE <<Head(ss)>> \o NonEmpty(Tail(ss))

-----------------------------------------------------------------------------
(* os.path *)

\* posixpath.join(a, b)
PosixJoin(a, b) ==
    IF StartsWith(b, "/") THEN b
    ELSE IF a = <<>> \/ EndsWith(a, "/") THEN a \o b
    ELSE a \o <<"/">> \o b

Drives == {"C:"}

NtSeps == {"\\", "/"}

\* ntpath.splitdrive(p)[0] and [1]
NtDrive(p) == IF Len(p) >= 1 /\ p[1] \in Drives THEN <<p[1]>> ELSE <<>>

NtTail(p) == IF Len(p) >= 1 /\ p[1] \in Drives THEN Tail(p) ELSE p

\* ntpath.join(a, b)
NtJoin(a, b) ==
    LET ad == NtDrive(a)
        ap == NtTail(a)
        bd == NtDrive(b)
        bp == NtTail(b)
    IN  IF bp # <<>> /\ bp[1] \in NtSeps
        THEN (IF bd # <<>> \/ ad = <<>> THEN bd ELSE ad) \o bp
        ELSE IF bd # <<>> /\ bd # ad THEN b
        ELSE IF ap # <<>> /\ Last(ap) \notin NtSeps
             THEN ad \o ap \o <<"\\">> \o bp
             ELSE ad \o ap \o bp

\* the component list of ntpath.normpath: "" and "." dropped, ".." resolved
RECURSIVE NtComps(_, _, _)
NtComps(comps, acc, rooted) ==
    IF comps = <<>> THEN acc
    ELSE LET c == Head(comps)
         IN  IF c = <<>> \/ c = <<".">> THEN NtComps(Tail(comps), acc, rooted)
             ELSE IF c = <<"..">> /\ acc # <<>> /\ Last(acc) # <<"..">>
                  THEN NtComps(Tail(comps), SubSeq(acc, 1, Len(acc) - 1), rooted)
             ELSE IF c = <<"..">> /\ acc = <<>> /\ rooted
                  THEN NtComps(Tail(comps), acc, rooted)
             ELSE NtComps(Tail(comps), Append(acc, c), rooted)

\* sep.join(comps)
RECURSIVE JoinWith(_, _)
JoinWith(comps, sep) ==
    IF comps = <<>> THEN <<>>
    ELSE IF Len(comps) = 1 THEN Head(comps)
    ELSE Head(comps) \o <<sep>> \o JoinWith(Tail(comps), sep)

\* ntpath.normpath(p)
NtNormpath(p) ==
    LET d      == NtDrive(p)
        t      == NtTail(p)
        rooted == t # <<>> /\ t[1] \in NtSeps
        prefix == IF rooted THEN d \o <<"\\">> ELSE d
        comps  == NtComps(SplitOn(t, NtSeps), <<>>, rooted)
    IN  IF prefix = <<>> /\ comps = <<>> THEN <<".">>
        ELSE prefix \o JoinWith(comps, "\\")

\* $HOME of the process
Home == <<"/", "home", "/", "u">>

\* posixpath.expanduser(p): "~" and "~/..." are expanded with $HOME; the
\* password database knows no other user, so "~name" is returned unchanged
PosixExpanduser(p) ==
    IF ~StartsWith(p, "~") THEN p
    ELSE LET i == Find(p, {"/"}, 1)
         IN  IF i # 2 THEN p
             ELSE LET r == RStrip(Home, "/") \o SubSeq(p, i, Len(p))
                  IN  IF r = <<>> THEN <<"/">> ELSE r

-----------------------------------------------------------------------------
(* Platform *)

\* the module's platform flags, set once at import
WINDOWS == sys_platform = "win32"

MACOSX == sys_platform # "win32" /\ sys_platform = "darwin"

LINUX == sys_platform # "win32" /\ sys_platform # "darwin"

\* os.path.join, os.path.normpath of the running platform
OsJoin(a, b) == IF sys_platform = "win32" THEN NtJoin(a, b) ELSE PosixJoin(a, b)

\* sys.prefix
SysPrefix ==
    IF sys_platform = "win32" THEN <<"C:", "\\", "venv">> ELSE <<"/", "venv">>

\* os.getenv that never finds the variable
GetenvUnset(name, default) == default

\* os.getenv(name, default)
Getenv(name, default) ==
    IF environ[name] = None THEN default ELSE environ[name]

-----------------------------------------------------------------------------
(* Filesystem *)

\* a path without its repeated and trailing separators
RECURSIVE Squeeze(_)
Squeeze(s) ==
    IF s = <<>> THEN <<>>
    ELSE IF Head(s) = "/" /\ (Len(s) = 1 \/ s[2] = "/") THEN Squeeze(Tail(s))
    ELSE <<Head(s)>> \o Squeeze(Tail(s))

\* the key of a filesystem entry is its absolute, normalized path; a relative
\* path is taken from the working directory of the process
PosixKey(p) ==
    LET body == Squeeze(p)
    IN  IF StartsWith(p, "/") THEN (IF body = <<>> THEN <<"/">> ELSE body)
        ELSE IF body = <<>> THEN <<"/", "cwd">>
        ELSE <<"/", "cwd", "/">> \o body

NtKey(p) ==
    LET n == NtNormpath(p)
        d == NtDrive(n)
        t == NtTail(n)
    IN  IF StartsWith(t, "\\") THEN (IF d = <<>> THEN <<"C:">> ELSE d) \o t
        ELSE IF t = <<>> \/ t = <<".">> THEN <<"C:", "\\", "cwd">>
        ELSE <<"C:", "\\", "cwd", "\\">> \o t

\* the filesystem entry a path names
Key(p) == IF sys_platform = "win32" THEN NtKey(p) ELSE PosixKey(p)

\* an entry and the directories above it, up to the root
Ancestors(k) ==
    LET sep  == IF sys_platform = "win32" THEN "\\" ELSE "/"
        root == IF sys_platform = "win32" THEN 2 ELSE 1
    IN  {SubSeq(k, 1, root), k}
            \cup {SubSeq(k, 1, i - 1) : i \in {j \in root + 1..Len(k) : k[j] = sep}}

TrailingSep(p) ==
    Len(p) >= 1 /\ Last(p) \in (IF sys_platform = "win32" THEN NtSeps ELSE {"/"})

\* os.path.exists(p) on filesystem f
Exists(p, f) ==
    /\ p # <<>>
    /\ \/ Key(p) \in f.dirs
       \/ Key(p) \in f.files /\ ~TrailingSep(p)

\* os.makedirs(p) raises OSError: the empty path, an entry already there,
\* or a non-directory on the way
MakedirsRaises(p, f) ==
    \/ p = <<>>
    \/ Key(p) \in f.dirs
    \/ Ancestors(Key(p)) \cap f.files # {}

\* os.makedirs as a replacement of the directory tree by the new path
MakedirsReplacing(p, f) == [f EXCEPT !.dirs = Ancestors(Key(p))]

\* the filesystem after a successful os.makedirs(p)
Makedirs(p, f) == [f EXCEPT !.dirs = @ \cup Ancestors(Key(p))]

-----------------------------------------------------------------------------
(* _in_virtualenv_folder, _get_win_folder *)

\* in_venv is the value of
\* hasattr(sys, 'real_prefix') or
\* hasattr(sys, 'base_prefix') and sys.base_prefix != sys.prefix
InVirtualenvFolder == in_venv

CSIDL_APPDATA == 26

CSIDL_COMMON_APPDATA == 35

CSIDL_LOCAL_APPDATA == 28

\* the folder SHGetFolderPathW writes to buf for a CSIDL constant
SHGetFolderPath(csidl) ==
    IF csidl = CSIDL_COMMON_APPDATA THEN <<"C:", "\\", "ProgramData">>
    ELSE IF csidl = CSIDL_APPDATA THEN <<"C:", "\\", "Roaming">>
    ELSE <<"C:", "\\", "Local">>

\* the outcome of a call: a value returned, or an exception raised
Returns(v) == [ok |-> TRUE, exc |-> "", paths |-> v]

Raises(e) == [ok |-> FALSE, exc |-> e, paths |-> <<>>]

\* the folder with roaming tested before site
GetWinFolderRoamingFirst(site, roaming, app_author) ==
    IF app_author = None THEN Raises("RuntimeError")
    ELSE LET csidl_const == IF roaming THEN CSIDL_APPDATA
                            ELSE IF site THEN CSIDL_COMMON_APPDATA
                            ELSE CSIDL_LOCAL_APPDATA
         IN  Returns(<<NtJoin(SHGetFolderPath(csidl_const), app_author)>>)

\* the folder with the roaming and the local constants exchanged
GetWinFolderSwapped(site, roaming, app_author) ==
    IF app_author = None THEN Raises("RuntimeError")
    ELSE LET csidl_const == IF site THEN CSIDL_COMMON_APPDATA
                            ELSE IF roaming THEN CSIDL_LOCAL_APPDATA
                            ELSE CSIDL_APPDATA
         IN  Returns(<<NtJoin(SHGetFolderPath(csidl_const), app_author)>>)

\* the folder without the test for app_author, which is then left out
GetWinFolderAnyAuthor(site, roaming, app_author) ==
    LET csidl_const == IF site THEN CSIDL_COMMON_APPDATA
                       ELSE IF roaming THEN CSIDL_APPDATA
                       ELSE CSIDL_LOCAL_APPDATA
    IN  IF app_author = None THEN Returns(<<SHGetFolderPath(csidl_const)>>)
        ELSE Returns(<<NtJoin(SHGetFolderPath(csidl_const), app_author)>>)

GetWinFolder(site, roaming, app_author) ==
    IF app_author = None THEN Raises("RuntimeError")
    ELSE LET csidl_const == IF site THEN CSIDL_COMMON_APPDATA
                            ELSE IF roaming THEN CSIDL_APPDATA
                            ELSE CSIDL_LOCAL_APPDATA
         IN  Returns(<<NtJoin(SHGetFolderPath(csidl_const), app_author)>>)

-----------------------------------------------------------------------------
(* _get_folder: the base paths *)

user_data == <<"user", "_", "data">>

user_config == <<"user", "_", "config">>

user_state == <<"user", "_", "state">>

user_cache == <<"user", "_", "cache">>

user_log == <<"user", "_", "log">>

site_data == <<"site", "_", "data">>

site_config == <<"site", "_", "config">>

FolderTypes ==
    {user_data, user_config, user_state, user_cache, user_log, site_data, site_config}

\* the short-circuit without the test for site categories
UseVirtualenvFolderAlsoSite(folder_type, use_virtualenv) ==
    use_virtualenv /\ InVirtualenvFolder

\* the short-circuit without the test for a virtualenv
UseVirtualenvFolderUnchecked(folder_type, use_virtualenv) ==
    ~StartsWith(folder_type, "site") /\ use_virtualenv

\* the condition of the virtualenv short-circuit
UseVirtualenvFolder(folder_type, use_virtualenv) ==
    ~StartsWith(folder_type, "site") /\ use_virtualenv /\ InVirtualenvFolder

\* the virtualenv root itself, without the subdirectory of the category
VirtualenvPathsNoSubFolder(folder_type) == Returns(<<SysPrefix>>)

\* folder_type.split('_')[1] raises IndexError when there is no '_'
VirtualenvPaths(folder_type) ==
    LET parts == SplitOn(folder_type, {"_"})
    IN  IF Len(parts) < 2 THEN Raises("IndexError")
        ELSE Returns(<<OsJoin(SysPrefix, parts[2])>>)

\* os.path.normpath of the folder, then a fixed subdirectory if one is given
WinPath(folder, sub) ==
    IF ~folder.ok THEN folder
    ELSE LET path == NtNormpath(folder.paths[1])
         IN  Returns(<<IF sub = <<>> THEN path ELSE NtJoin(path, sub)>>)

WindowsPaths(folder_type, app_author, roaming) ==
    IF folder_type \in {user_data, user_config, user_state}
    THEN WinPath(GetWinFolder(FALSE, roaming, app_author), <<>>)
    ELSE IF folder_type = user_cache
    THEN WinPath(GetWinFolder(FALSE, FALSE, app_author), <<"Caches">>)
    ELSE IF folder_type = <<"user", "_", "logs">>
    THEN WinPath(GetWinFolder(FALSE, FALSE, app_author), <<"Logs">>)
    ELSE WinPath(GetWinFolder(TRUE, roaming, app_author), <<>>)

\* the user data folder taken from XDG_DATA_HOME when it is set
MacPathsXdg(folder_type) ==
    IF folder_type \in {user_data, user_config, user_state}
    THEN Returns(<<Getenv("XDG_DATA_HOME",
                          PosixExpanduser(<<"~", "/", "Library", "/", "Application Support">>))>>)
    ELSE IF folder_type = user_cache
    THEN Returns(<<PosixExpanduser(<<"~", "/", "Library", "/", "Caches">>)>>)
    ELSE IF folder_type = user_log
    THEN Returns(<<PosixExpanduser(<<"~", "/", "Library", "/", "Logs">>)>>)
    ELSE Returns(<<PosixExpanduser(<<"/", "Library", "/", "Application Support">>)>>)

MacPaths(folder_type) ==
    IF folder_type \in {user_data, user_config, user_state}
    THEN Returns(<<PosixExpanduser(<<"~", "/", "Library", "/", "Application Support">>)>>)
    ELSE IF folder_type = user_cache
    THEN Returns(<<PosixExpanduser(<<"~", "/", "Library", "/", "Caches">>)>>)
    ELSE IF folder_type = user_log
    THEN Returns(<<PosixExpanduser(<<"~", "/", "Library", "/", "Logs">>)>>)
    ELSE Returns(<<PosixExpanduser(<<"/", "Library", "/", "Application Support">>)>>)

\* [os.path.expanduser(x.rstrip(os.sep)) for x in path.split(os.pathsep)]
SitePaths(path) ==
    LET xs == SplitOn(path, {":"})
    IN  [i \in DOMAIN xs |-> PosixExpanduser(RStrip(xs[i], "/"))]

LinuxPaths(folder_type) ==
    IF folder_type = user_data
    THEN Returns(<<Getenv("XDG_DATA_HOME",
                          PosixExpanduser(<<"~", "/", ".local", "/", "share">>))>>)
    ELSE IF folder_type = user_config
    THEN Returns(<<Getenv("XDG_CONFIG_HOME", PosixExpanduser(<<"~", "/", ".config">>))>>)
    ELSE IF folder_type = user_state
    THEN Returns(<<Getenv("XDG_STATE_HOME",
                          PosixExpanduser(<<"~", "/", ".local", "/", "state">>))>>)
    ELSE IF folder_type = user_cache
    THEN Returns(<<Getenv("XDG_CACHE_HOME", PosixExpanduser(<<"~", "/", ".cache">>))>>)
    ELSE IF folder_type = site_data
    THEN Returns(SitePaths(Getenv("XDG_DATA_DIRS",
                     JoinWith(<< <<"/", "usr", "/", "local", "/", "share">>,
                                 <<"/", "usr", "/", "share">> >>, ":"))))
    ELSE Returns(SitePaths(Getenv("XDG_CONFIG_DIRS", <<"/", "etc", "/", "xdg">>)))

\* the paths selected before app_name and version are appended
BasePaths(folder_type, app_author, roaming, use_virtualenv) ==
    IF UseVirtualenvFolder(folder_type, use_virtualenv) THEN VirtualenvPaths(folder_type)
    ELSE IF WINDOWS THEN WindowsPaths(folder_type, app_author, roaming)
    ELSE IF MACOSX THEN MacPaths(folder_type)
    ELSE IF LINUX THEN LinuxPaths(folder_type)
    ELSE Raises("RuntimeError")

-----------------------------------------------------------------------------
(* _get_folder: the final paths and their creation *)

\* the version appended to the name of the last segment
FinalPathOneSegment(path, app_name, version) ==
    IF version # None THEN OsJoin(path, app_name \o <<"_">> \o version)
    ELSE OsJoin(path, app_name)

FinalPath(path, app_name, version) ==
    LET final_path == OsJoin(path, app_name)
    IN  IF version # None THEN OsJoin(final_path, version) ELSE final_path

\* the guard without the create flag
ShouldCreateAlways(create, final_path, f) == ~Exists(final_path, f)

\* the guard of os.makedirs
ShouldCreate(create, final_path, f) == create /\ ~Exists(final_path, f)

\* the loop with final_paths.append under the if: a path is returned only when
\* its directory was created
RECURSIVE FinalPathsAppendIfCreated(_, _, _, _, _, _)
FinalPathsAppendIfCreated(paths, app_name, version, create, f, final_paths) ==
    IF paths = <<>>
    THEN [ok |-> TRUE, exc |-> "", paths |-> final_paths, fs |-> f]
    ELSE IF app_name = None
    THEN [ok |-> FALSE, exc |-> "TypeError", paths |-> <<>>, fs |-> f]
    ELSE LET final_path == FinalPath(Head(paths), app_name, version)
         IN  IF ShouldCreate(create, final_path, f)
             THEN IF MakedirsRaises(final_path, f)
                  THEN [ok |-> FALSE, exc |-> "OSError", paths |-> <<>>, fs |-> f]
                  ELSE FinalPathsAppendIfCreated(Tail(paths), app_name, version, create,
                                                 Makedirs(final_path, f),
                                                 Append(final_paths, final_path))
             ELSE FinalPathsAppendIfCreated(Tail(paths), app_name, version, create,
                                            f, final_paths)

\* the loop with the error of os.makedirs caught and dropped: the loop goes on
RECURSIVE FinalPathsKeepGoing(_, _, _, _, _, _)
FinalPathsKeepGoing(paths, app_name, version, create, f, final_paths) ==
    IF paths = <<>>
    THEN [ok |-> TRUE, exc |-> "", paths |-> final_paths, fs |-> f]
    ELSE IF app_name = None
    THEN [ok |-> FALSE, exc |-> "TypeError", paths |-> <<>>, fs |-> f]
    ELSE LET final_path == FinalPath(Head(paths), app_name, version)
         IN  IF ShouldCreate(create, final_path, f)
             THEN IF MakedirsRaises(final_path, f)
                  THEN FinalPathsKeepGoing(Tail(paths), app_name, version, create,
                                           f, Append(final_paths, final_path))
                  ELSE FinalPathsKeepGoing(Tail(paths), app_name, version, create,
                                           Makedirs(final_path, f),
                                           Append(final_paths, final_path))
             ELSE FinalPathsKeepGoing(Tail(paths), app_name, version, create,
                                      f, Append(final_paths, final_path))

\* the loop over paths; os.path.join raises TypeError when app_name is None
RECURSIVE FinalPaths(_, _, _, _, _, _)
FinalPaths(paths, app_name, version, create, f, final_paths) ==
    IF paths = <<>>
    THEN [ok |-> TRUE, exc |-> "", paths |-> final_paths, fs |-> f]
    ELSE IF app_name = None
    THEN [ok |-> FALSE, exc |-> "TypeError", paths |-> <<>>, fs |-> f]
    ELSE LET final_path == FinalPath(Head(paths), app_name, version)
         IN  IF ShouldCreate(create, final_path, f)
             THEN IF MakedirsRaises(final_path, f)
                  THEN [ok |-> FALSE, exc |-> "OSError", paths |-> <<>>, fs |-> f]
                  ELSE FinalPaths(Tail(paths), app_name, version, create,
                                  Makedirs(final_path, f), Append(final_paths, final_path))
             ELSE FinalPaths(Tail(paths), app_name, version, create,
                             f, Append(final_paths, final_path))

GetFolder(folder_type, app_name, app_author, version, roaming, use_virtualenv, create, f) ==
    LET base == BasePaths(folder_type, app_author, roaming, use_virtualenv)
    IN  IF ~base.ok
        THEN [ok |-> FALSE, exc |-> base.exc, paths |-> <<>>, bases |-> <<>>, fs |-> f]
        ELSE LET r == FinalPaths(base.paths, app_name, version, create, f, <<>>)
             IN  [ok |-> r.ok, exc |-> r.exc, paths |-> r.paths,
                  bases |-> base.paths, fs |-> r.fs]

-----------------------------------------------------------------------------
(* The accessors *)

CreateArgs == {"True", "False", "omitted"}

\* one call of an accessor, from entry to return or raise: fn its name, single
\* whether it returns element [0] (an IndexError on an empty list),
\* create_default the default of its create parameter
Invoke(fn, folder_type, single, roaming, use_virtualenv, create_arg, create_default) ==
    /\ \E create \in {IF create_arg = "omitted" THEN create_default
                       ELSE create_arg = "True"} :
       \E r \in {GetFolder(folder_type, app.name, app.author, app.version,
                           roaming, use_virtualenv, create, fs)} :
       \E no_first \in {r.ok /\ single /\ r.paths = <<>>} :
           /\ fs' = r.fs
           /\ last' = [fn |-> fn, folder_type |-> folder_type,
                       roaming |-> roaming, use_virtualenv |-> use_virtualenv,
                       create_arg |-> create_arg, create |-> create,
                       ok |-> r.ok /\ ~no_first,
                       exc |-> IF no_first THEN "IndexError" ELSE r.exc,
                       bases |-> r.bases,
                       paths |-> r.paths,
                       ret |-> IF r.ok /\ single /\ ~no_first THEN <<r.paths[1]>>
                               ELSE r.paths]
    /\ fs_before' = fs
    /\ ncalls' = ncalls + 1
    /\ UNCHANGED <<sys_platform, in_venv, environ, app, callers>>

Call(fn, folder_type, single, roaming, use_virtualenv, create_arg, create_default) ==
    /\ ncalls < MaxCalls
    /\ Invoke(fn, folder_type, single, roaming, use_virtualenv, create_arg, create_default)

user_data_dir ==
    \E roaming \in BOOLEAN, use_virtualenv \in BOOLEAN, create_arg \in CreateArgs :
        Call("user_data_dir", user_data, TRUE, roaming, use_virtualenv, create_arg, TRUE)

user_config_dir ==
    \E roaming \in BOOLEAN, use_virtualenv \in BOOLEAN, create_arg \in CreateArgs :
        Call("user_config_dir", user_config, TRUE, roaming, use_virtualenv, create_arg, TRUE)

user_cache_dir ==
    \E use_virtualenv \in BOOLEAN, create_arg \in CreateArgs :
        Call("user_cache_dir", user_cache, TRUE, FALSE, use_virtualenv, create_arg, TRUE)

user_state_dir ==
    \E roaming \in BOOLEAN, use_virtualenv \in BOOLEAN, create_arg \in CreateArgs :
        Call("user_state_dir", user_state, TRUE, roaming, use_virtualenv, create_arg, TRUE)

user_log_dir ==
    \E use_virtualenv \in BOOLEAN, create_arg \in CreateArgs :
        Call("user_log_dir", user_log, TRUE, FALSE, use_virtualenv, create_arg, TRUE)

site_data_dirs ==
    \E use_virtualenv \in BOOLEAN, create_arg \in CreateArgs :
        Call("site_data_dirs", site_data, FALSE, FALSE, use_virtualenv, create_arg, FALSE)

site_config_dirs ==
    \E use_virtualenv \in BOOLEAN, create_arg \in CreateArgs :
        Call("site_config_dirs", site_config, FALSE, FALSE, use_virtualenv, create_arg, TRUE)

\* folder types that are none of the seven
OtherFolderTypes ==
    {<<"user", "_", "logs">>, <<"user", "_", "documents">>, <<"site", "_", "cache">>,
     <<"documents">>}

\* a call of _get_folder itself, with any folder_type
get_folder ==
    \E folder_type \in FolderTypes \cup OtherFolderTypes,
       roaming \in BOOLEAN, use_virtualenv \in BOOLEAN, create_arg \in {"True", "False"} :
        Call("_get_folder", folder_type, FALSE, roaming, use_virtualenv, create_arg, FALSE)

\* a call has been made
Called == last.fn # ""

\* the accessors that return one path, and those that return the list
UserFns == {"user_data_dir", "user_config_dir", "user_state_dir", "user_cache_dir",
            "user_log_dir"}

SiteFns == {"site_data_dirs", "site_config_dirs"}

\* the last call made once more by the same program: same accessor, same
\* arguments, platform and environment as they are
Again ==
    /\ Called
    /\ ncalls <= MaxAgain
    /\ Invoke(last.fn, last.folder_type, last.fn \in UserFns, last.roaming,
              last.use_virtualenv, last.create_arg, last.create)

\* the last call made once more with the other value of create
AgainOtherCreate ==
    /\ Called
    /\ ncalls <= MaxAgain
    /\ Invoke(last.fn, last.folder_type, last.fn \in UserFns, last.roaming,
              last.use_virtualenv, IF last.create THEN "False" ELSE "True", FALSE)

-----------------------------------------------------------------------------
(* Callers running an accessor at the same time, with create=True.  Each    *)
(* caller runs the statements of _get_folder in order; what another caller  *)
(* can observe or disturb is the filesystem, read by os.path.exists and     *)
(* written by os.makedirs, so a step ends at each of the two.               *)

Callers == 1..NCallers

Accessors ==
    {<<"user_data_dir", user_data>>, <<"user_config_dir", user_config>>,
     <<"user_state_dir", user_state>>, <<"user_cache_dir", user_cache>>,
     <<"user_log_dir", user_log>>, <<"site_data_dirs", site_data>>,
     <<"site_config_dirs", site_config>>}

Idle ==
    [pc |-> "idle", fn |-> "", folder_type |-> <<>>, use_virtualenv |-> FALSE,
     paths |-> <<>>, final_path |-> <<>>, final_paths |-> <<>>, exc |-> ""]

\* caller c enters an accessor, the one the callers already running are in,
\* and selects the base paths
Enter(c) ==
    /\ callers[c].pc = "idle"
    /\ \E a \in Accessors, use_virtualenv \in BOOLEAN :
          /\ \A d \in Callers :
                callers[d].pc # "idle" =>
                    callers[d].fn = a[1] /\ callers[d].use_virtualenv = use_virtualenv
          /\ \E base \in {BasePaths(a[2], app.author, FALSE, use_virtualenv)} :
                callers' = [callers EXCEPT ![c] =
                    [Idle EXCEPT !.pc = IF base.ok THEN "loop" ELSE "raised",
                                 !.fn = a[1], !.folder_type = a[2],
                                 !.use_virtualenv = use_virtualenv,
                                 !.paths = base.paths, !.exc = base.exc]]
    /\ UNCHANGED <<sys_platform, in_venv, environ, app, fs, fs_before, last, ncalls>>

\* caller c at the head of the loop: the return when no path is left, else the
\* two joins and the test of os.path.exists
CheckExists(c) ==
    /\ callers[c].pc = "loop"
    /\ LET me == callers[c]
       IN  IF me.paths = <<>>
           THEN callers' = [callers EXCEPT ![c].pc = "returned"]
           ELSE IF app.name = None
           THEN callers' = [callers EXCEPT ![c].pc = "raised", ![c].exc = "TypeError"]
           ELSE \E final_path \in {FinalPath(Head(me.paths), app.name, app.version)} :
                   IF ShouldCreate(TRUE, final_path, fs)
                   THEN callers' = [callers EXCEPT ![c].pc = "makedirs",
                                                   ![c].final_path = final_path]
                   ELSE callers' = [callers EXCEPT
                                       ![c].paths = Tail(me.paths),
                                       ![c].final_paths = Append(me.final_paths, final_path)]
    /\ UNCHANGED <<sys_platform, in_venv, environ, app, fs, fs_before, last, ncalls>>

\* caller c calls os.makedirs on the path it found missing
MakeDirs(c) ==
    /\ callers[c].pc = "makedirs"
    /\ LET me == callers[c]
       IN  IF MakedirsRaises(me.final_path, fs)
           THEN /\ callers' = [callers EXCEPT ![c].pc = "raised", ![c].exc = "OSError"]
                /\ fs' = fs
           ELSE /\ callers' = [callers EXCEPT
                                  ![c].pc = "loop",
                                  ![c].paths = Tail(me.paths),
                                  ![c].final_path = <<>>,
                                  ![c].final_paths = Append(me.final_paths, me.final_path)]
                /\ fs' = Makedirs(me.final_path, fs)
    /\ UNCHANGED <<sys_platform, in_venv, environ, app, fs_before, last, ncalls>>

-----------------------------------------------------------------------------
(* Initial states *)

\* "riscos" stands for the platforms that are neither Windows, macOS nor a
\* Unix; its os.path is taken to join as posixpath does
Platforms == {"win32", "darwin", "linux", "freebsd", "riscos"}

XdgVars == {"XDG_DATA_HOME", "XDG_CONFIG_HOME", "XDG_STATE_HOME", "XDG_CACHE_HOME",
            "XDG_DATA_DIRS", "XDG_CONFIG_DIRS"}

\* no XDG variable set
EnvUnset == [v \in XdgVars |-> None]

\* every XDG variable set to an absolute path, the lists to two entries
EnvSet ==
    [EnvUnset EXCEPT !["XDG_DATA_HOME"] = <<"/", "x", "/", "share">>,
                     !["XDG_CONFIG_HOME"] = <<"/", "x", "/", "config">>,
                     !["XDG_STATE_HOME"] = <<"/", "x", "/", "state">>,
                     !["XDG_CACHE_HOME"] = <<"/", "tmp", "/", "x">>,
                     !["XDG_DATA_DIRS"] = <<"/", "a", ":", "/", "b">>,
                     !["XDG_CONFIG_DIRS"] = <<"/", "c", ":", "/", "d">>]

\* some variables set, one entry in a list, a trailing separator
EnvPartial ==
    [EnvUnset EXCEPT !["XDG_DATA_HOME"] = <<"/", "x", "/", "share", "/">>,
                     !["XDG_CACHE_HOME"] = <<"/", "tmp", "/", "x">>,
                     !["XDG_DATA_DIRS"] = <<"/", "a", "/">>]

\* the empty string, a relative path, the root, "~", an empty list entry
EnvOdd ==
    [EnvUnset EXCEPT !["XDG_DATA_HOME"] = <<>>,
                     !["XDG_CONFIG_HOME"] = <<"rel">>,
                     !["XDG_STATE_HOME"] = <<"/">>,
                     !["XDG_CACHE_HOME"] = <<"~", "/", "x">>,
                     !["XDG_DATA_DIRS"] = <<"/", "a", "/", ":", "/">>,
                     !["XDG_CONFIG_DIRS"] = <<"/", "c", ":", ":", "~", "/", "d">>]

\* the environments of a platform: the unusual values on the platforms whose
\* branch reads them and on one that ignores them
Environments(platform) ==
    IF platform \in {"win32", "freebsd", "riscos"} THEN {EnvUnset, EnvSet}
    ELSE {EnvUnset, EnvSet, EnvPartial, EnvOdd}

AppNames == {None, <<>>, <<"app">>}

AppAuthors == {None, <<"acme">>}

Versions == {None, <<"1.0">>}

\* the key of the entry with these names on the way from the root
PosixEntry(names) == IF names = <<>> THEN <<"/">> ELSE <<"/">> \o JoinWith(names, "/")

NtEntry(names) == <<"C:", "\\">> \o JoinWith(names, "\\")

\* only the directories every system has
CleanFs(platform) ==
    IF platform = "win32"
    THEN [dirs  |-> {NtEntry(<<>>), NtEntry(<< <<"cwd">> >>)}, files |-> {}]
    ELSE [dirs  |-> {PosixEntry(<<>>), PosixEntry(<< <<"cwd">> >>),
                     PosixEntry(<< <<"home">> >>), PosixEntry(<< <<"home">>, <<"u">> >>)},
          files |-> {}]

\* the leaves of the directories of a used system, and its regular files
UsedDirs(platform) ==
    IF platform = "win32"
    THEN {NtEntry(<< <<"cwd">> >>), NtEntry(<< <<"Local">>, <<"acme">>, <<"app">> >>),
          NtEntry(<< <<"Roaming">>, <<"acme">> >>), NtEntry(<< <<"venv">>, <<"config">> >>),
          NtEntry(<< <<"venv">>, <<"data">> >>), NtEntry(<< <<"ProgramData">> >>)}
    ELSE {PosixEntry(<< <<"cwd">> >>),
          PosixEntry(<< <<"home">>, <<"u">>, <<".config">>, <<"app">> >>),
          PosixEntry(<< <<"home">>, <<"u">>, <<".local">>, <<"share">> >>),
          PosixEntry(<< <<"home">>, <<"u">>, <<"Library">>, <<"Application Support">> >>),
          PosixEntry(<< <<"venv">>, <<"data">> >>),
          PosixEntry(<< <<"a">>, <<"app">> >>), PosixEntry(<< <<"x">> >>)}

UsedFiles(platform) ==
    IF platform = "win32"
    THEN {NtEntry(<< <<"Roaming">>, <<"acme">>, <<"app">> >>),
          NtEntry(<< <<"venv">>, <<"data">>, <<"app">> >>),
          NtEntry(<< <<"venv">>, <<"log">> >>)}
    ELSE {PosixEntry(<< <<"home">>, <<"u">>, <<".local">>, <<"share">>, <<"app">> >>),
          PosixEntry(<< <<"home">>, <<"u">>, <<".cache">> >>),
          PosixEntry(<< <<"home">>, <<"u">>, <<"Library">>, <<"Application Support">>,
                        <<"app">> >>),
          PosixEntry(<< <<"home">>, <<"u">>, <<"Library">>, <<"Caches">> >>),
          PosixEntry(<< <<"venv">>, <<"data">>, <<"app">> >>),
          PosixEntry(<< <<"venv">>, <<"log">> >>),
          PosixEntry(<< <<"b">> >>), PosixEntry(<< <<"x">>, <<"state">> >>),
          PosixEntry(<< <<"cwd">>, <<"app">> >>)}

\* a filesystem where some final paths exist already, as directories or as
\* regular files, and some paths lead through a regular file
UsedFs(platform) ==
    [dirs  |-> UNION {Ancestors(k) : k \in UsedDirs(platform)},
     files |-> UsedFiles(platform)]

NoCall ==
    [fn |-> "", folder_type |-> <<>>, roaming |-> FALSE, use_virtualenv |-> FALSE,
     create_arg |-> "omitted", create |-> FALSE, ok |-> FALSE, exc |-> "",
     bases |-> <<>>, paths |-> <<>>, ret |-> <<>>]

Init ==
    /\ sys_platform \in Platforms
    /\ in_venv \in BOOLEAN
    /\ environ \in Environments(sys_platform)
    /\ app \in [name : AppNames, author : AppAuthors, version : Versions]
    /\ fs \in {CleanFs(sys_platform), UsedFs(sys_platform)}
    /\ fs_before = fs
    /\ last = NoCall
    /\ ncalls = 0
    /\ callers = [c \in Callers |-> Idle]

Next ==
    \/ user_data_dir
    \/ user_config_dir
    \/ user_cache_dir
    \/ user_state_dir
    \/ user_log_dir
    \/ site_data_dirs
    \/ site_config_dirs

Spec == Init /\ [][Next]_vars

\* the resolver called directly
NextResolver == get_folder

SpecResolver == Init /\ [][NextResolver]_vars

\* the accessors that take roaming; the others pass False to _get_folder
RoamingFns == {"user_data_dir", "user_config_dir", "user_state_dir"}

\* the first call of a program: any accessor, any arguments
First ==
    /\ ncalls = 0
    /\ \E a \in Accessors, use_virtualenv \in BOOLEAN, create_arg \in CreateArgs :
       \E roaming \in IF a[1] \in RoamingFns THEN BOOLEAN ELSE {FALSE} :
           Invoke(a[1], a[2], a[1] \in UserFns, roaming, use_virtualenv, create_arg,
                  a[1] # "site_data_dirs")

\* an accessor called, then called once more
NextTwice ==
    \/ First
    \/ Again
    \/ AgainOtherCreate

SpecTwice == Init /\ [][NextTwice]_vars

\* callers in the same accessor at the same time
NextRace ==
    \E c \in Callers :
        \/ Enter(c)
        \/ CheckExists(c)
        \/ MakeDirs(c)

SpecRace == Init /\ [][NextRace]_vars

-----------------------------------------------------------------------------
(* Vocabulary of the properties *)

\* a proper name: neither None nor the empty string
IsName(x) == x # None /\ x # <<>>

\* the virtualenv short-circuit applies to the last call
ShortCircuit == last.fn \in UserFns /\ last.use_virtualenv /\ in_venv

\* the path names a directory of filesystem f
IsDir(p, f) == p # <<>> /\ Key(p) \in f.dirs

\* the names of the segments of a path, and whether it starts at a root
Segments(p) ==
    IF sys_platform = "win32" THEN NonEmpty(SplitOn(NtTail(p), NtSeps))
    ELSE NonEmpty(SplitOn(p, {"/"}))

Rooted(p) ==
    IF sys_platform = "win32" THEN NtTail(p) # <<>> /\ NtTail(p)[1] \in NtSeps
    ELSE StartsWith(p, "/")

\* the outcome of the last call, had use_virtualenv been the other value
OtherVirtualenv ==
    GetFolder(last.folder_type, app.name, app.author, app.version, last.roaming,
              ~last.use_virtualenv, last.create, fs_before)

SameOutcome(r) ==
    /\ r.ok = last.ok
    /\ r.exc = last.exc
    /\ r.paths = last.paths
    /\ r.fs = fs

-----------------------------------------------------------------------------
(* C1 *)

\* C1: when a call with create=True returns normally, every returned path
\* exists as a directory after the call, whatever the filesystem was before
\* (also when the final path was there already as a non-directory entry).
C1_ReturnedPathsAreDirectories ==
    (Called /\ last.create /\ last.ok) =>
        \A i \in DOMAIN last.ret : IsDir(last.ret[i], fs)

-----------------------------------------------------------------------------
(* C2 *)

\* C2: a call with create=False leaves the filesystem exactly as it was,
\* whether the call returns or raises.
C2_NoCreateNoMutation ==
    (Called /\ ~last.create) => fs = fs_before

\* a call with create=False returned a path that does not exist
C2_Witness ==
    /\ Called /\ ~last.create /\ last.ok
    /\ ~Exists(last.ret[1], fs)

-----------------------------------------------------------------------------
(* C3 *)

-----------------------------------------------------------------------------
(* C4 *)

\* C4: when a version is given, every accessor returns, for each base path,
\* the base joined with the single segment app_name "_" version.
C4_VersionJoinedByUnderscore ==
    (Called /\ last.ok /\ IsName(app.name) /\ app.version # None) =>
        \A i \in DOMAIN last.paths :
            last.paths[i] = OsJoin(last.bases[i], app.name \o <<"_">> \o app.version)

-----------------------------------------------------------------------------
(* C5 *)

\* the XDG variable and the default under $HOME of a Linux user accessor
XdgHomeVar(fn) ==
    CASE fn = "user_data_dir" -> "XDG_DATA_HOME"
      [] fn = "user_config_dir" -> "XDG_CONFIG_HOME"
      [] fn = "user_state_dir" -> "XDG_STATE_HOME"
      [] fn = "user_cache_dir" -> "XDG_CACHE_HOME"

XdgHomeDefault(fn) ==
    CASE fn = "user_data_dir" -> <<"/", "home", "/", "u", "/", ".local", "/", "share">>
      [] fn = "user_config_dir" -> <<"/", "home", "/", "u", "/", ".config">>
      [] fn = "user_state_dir" -> <<"/", "home", "/", "u", "/", ".local", "/", "state">>
      [] fn = "user_cache_dir" -> <<"/", "home", "/", "u", "/", ".cache">>

\* C5: on Linux/Unix outside the virtualenv short-circuit, user_data_dir,
\* user_config_dir, user_state_dir and user_cache_dir return V joined with
\* app_name, V being the value of XDG_DATA_HOME, XDG_CONFIG_HOME,
\* XDG_STATE_HOME, XDG_CACHE_HOME when set and the home-expanded ~/.local/share,
\* ~/.config, ~/.local/state, ~/.cache when absent.
C5_XdgHomeOrDefault ==
    (/\ Called /\ LINUX /\ ~ShortCircuit
     /\ last.fn \in {"user_data_dir", "user_config_dir", "user_state_dir", "user_cache_dir"}
     /\ IsName(app.name) /\ app.version = None) =>
        LET V == IF environ[XdgHomeVar(last.fn)] # None
                 THEN environ[XdgHomeVar(last.fn)]
                 ELSE XdgHomeDefault(last.fn)
        IN  /\ ~last.create => last.ok
            /\ last.ok => last.ret = <<PosixJoin(V, app.name)>>

\* user_state_dir returned a path under the value of XDG_STATE_HOME
C5_Witness ==
    /\ Called /\ LINUX /\ ~ShortCircuit /\ last.ok
    /\ last.fn = "user_state_dir" /\ IsName(app.name) /\ app.version = None
    /\ environ["XDG_STATE_HOME"] = <<"/", "x", "/", "state">>
    /\ last.ret = << <<"/", "x", "/", "state", "/", "app">> >>

-----------------------------------------------------------------------------
(* C6 *)

\* the list a Linux site accessor reads, with its default
XdgDirs(fn) ==
    IF fn = "site_data_dirs"
    THEN (IF environ["XDG_DATA_DIRS"] # None THEN environ["XDG_DATA_DIRS"]
          ELSE <<"/", "usr", "/", "local", "/", "share", ":", "/", "usr", "/", "share">>)
    ELSE (IF environ["XDG_CONFIG_DIRS"] # None THEN environ["XDG_CONFIG_DIRS"]
          ELSE <<"/", "etc", "/", "xdg">>)

\* C6: on Linux/Unix, site_data_dirs and site_config_dirs return one path per
\* entry of the colon-separated XDG_DATA_DIRS / XDG_CONFIG_DIRS list (defaults
\* /usr/local/share:/usr/share and /etc/xdg), each the (home-expanded) entry
\* joined with app_name, in the order and the number of the entries.
C6_OnePathPerEntry ==
    (/\ Called /\ LINUX /\ last.fn \in SiteFns /\ last.ok
     /\ IsName(app.name) /\ app.version = None) =>
        LET entries == SplitOn(XdgDirs(last.fn), {":"})
        IN  /\ Len(last.ret) = Len(entries)
            /\ \A i \in DOMAIN entries :
                  last.ret[i] = PosixJoin(PosixExpanduser(entries[i]), app.name)

-----------------------------------------------------------------------------
(* C7 *)

\* the subdirectory of the virtualenv of each user accessor
VenvKind(fn) ==
    CASE fn = "user_data_dir" -> "data"
      [] fn = "user_config_dir" -> "config"
      [] fn = "user_state_dir" -> "state"
      [] fn = "user_cache_dir" -> "cache"
      [] fn = "user_log_dir" -> "log"

\* C7: inside a virtualenv with use_virtualenv=True, each user accessor
\* returns <virtualenv root>/<kind>/<app_name> (then the version, if given),
\* kind being data, config, state, cache, log, whatever the platform, the XDG
\* variables, app_author and roaming.
C7_VirtualenvShortCircuit ==
    (Called /\ ShortCircuit /\ IsName(app.name)) =>
        LET sep  == IF sys_platform = "win32" THEN "\\" ELSE "/"
            root == IF sys_platform = "win32" THEN <<"C:", "\\", "venv">>
                    ELSE <<"/", "venv">>
            tail == IF app.version = None THEN <<>> ELSE <<sep>> \o app.version
        IN  /\ ~last.create => last.ok
            /\ last.ok =>
                  last.ret = <<root \o <<sep, VenvKind(last.fn), sep>> \o app.name \o tail>>

\* user_log_dir returned the log directory of the virtualenv on Windows,
\* with no app_author given and the XDG variables set
C7_Witness ==
    /\ Called /\ ShortCircuit /\ last.ok
    /\ sys_platform = "win32" /\ app.author = None /\ environ = EnvSet
    /\ last.fn = "user_log_dir"
    /\ last.ret = << <<"C:", "\\", "venv", "\\", "log", "\\", "app">> >>

-----------------------------------------------------------------------------
(* C8 *)

-----------------------------------------------------------------------------
(* C9 *)

\* C9: outside a virtualenv use_virtualenv does nothing: for every accessor
\* the outcome with use_virtualenv=True is the outcome with use_virtualenv=False.
C9_NoVirtualenvNoEffect ==
    (Called /\ ~in_venv) => SameOutcome(OtherVirtualenv)

\* a user accessor returned outside a virtualenv with use_virtualenv=True
C9_Witness ==
    /\ Called /\ ~in_venv /\ last.ok
    /\ last.fn \in UserFns /\ last.use_virtualenv

-----------------------------------------------------------------------------
(* C10 *)

\* C10: on Linux outside the virtualenv short-circuit,
\* user_log_dir(app_name, create=False) returns the home-expanded
\* ~/.log/<app_name>, whether or not the XDG variables are set.
C10_LinuxUserLog ==
    (/\ Called /\ LINUX /\ ~ShortCircuit /\ last.fn = "user_log_dir"
     /\ ~last.create /\ IsName(app.name) /\ app.version = None) =>
        /\ last.ok
        /\ last.ret = <<<<"/", "home", "/", "u", "/", ".log", "/">> \o app.name>>

-----------------------------------------------------------------------------
(* C11 *)

\* C11: on Windows outside the virtualenv short-circuit, user_cache_dir and
\* user_log_dir resolve under the non-roaming local app-data folder (never the
\* machine-wide folder), with the fixed subdirectory Caches for user_cache and
\* Logs for user_log.
C11_WindowsCacheAndLogLocal ==
    (/\ Called /\ WINDOWS /\ ~ShortCircuit /\ last.ok
     /\ last.fn \in {"user_cache_dir", "user_log_dir"}) =>
        LET local == NtJoin(SHGetFolderPath(CSIDL_LOCAL_APPDATA), app.author)
            sub   == IF last.fn = "user_cache_dir" THEN <<"Caches">> ELSE <<"Logs">>
        IN  last.bases = <<NtJoin(local, sub)>>

-----------------------------------------------------------------------------
(* C12 *)

\* the folder of each accessor on macOS, $HOME expanded
MacFolder(fn) ==
    IF fn \in {"user_data_dir", "user_config_dir", "user_state_dir"}
    THEN Home \o <<"/", "Library", "/", "Application Support">>
    ELSE IF fn = "user_cache_dir" THEN Home \o <<"/", "Library", "/", "Caches">>
    ELSE IF fn = "user_log_dir" THEN Home \o <<"/", "Library", "/", "Logs">>
    ELSE <<"/", "Library", "/", "Application Support">>

\* C12: on macOS outside the virtualenv short-circuit, user_data_dir,
\* user_config_dir and user_state_dir return
\* ~/Library/Application Support/<app_name>, user_cache_dir returns
\* ~/Library/Caches/<app_name>, user_log_dir returns ~/Library/Logs/<app_name>,
\* site_data_dirs and site_config_dirs return the one-element list
\* [/Library/Application Support/<app_name>], whatever the XDG variables are.
C12_MacFolders ==
    (/\ Called /\ MACOSX /\ ~ShortCircuit
     /\ IsName(app.name) /\ app.version = None) =>
        /\ ~last.create => last.ok
        /\ last.ok => last.ret = <<MacFolder(last.fn) \o <<"/">> \o app.name>>

\* user_data_dir returned the macOS folder with XDG_DATA_HOME set
C12_Witness ==
    /\ Called /\ MACOSX /\ ~ShortCircuit /\ last.ok
    /\ IsName(app.name) /\ app.version = None
    /\ last.fn = "user_data_dir"
    /\ environ["XDG_DATA_HOME"] = <<"/", "x", "/", "share">>
    /\ last.ret = << <<"/", "home", "/", "u", "/", "Library", "/",
                       "Application Support", "/", "app">> >>

-----------------------------------------------------------------------------
(* C13 *)

\* C13: for every accessor, every platform and every value of the XDG
\* variables (the empty string, a relative path, "/", a list with an empty
\* entry included), a call that returns yields at least one path and every
\* returned path is absolute.
C13_NonEmptyAbsolute ==
    (Called /\ last.ok) =>
        /\ Len(last.ret) >= 1
        /\ \A i \in DOMAIN last.ret : Rooted(last.ret[i])

-----------------------------------------------------------------------------
(* C14 *)

\* C14: called without create, the five user accessors behave as create=True
\* and the two site accessors as create=False, so that a site accessor called
\* without create leaves the filesystem as it was.
C14_DefaultCreate ==
    (Called /\ last.create_arg = "omitted") =>
        /\ last.fn \in UserFns => last.create
        /\ last.fn \in SiteFns => (~last.create /\ fs = fs_before)

-----------------------------------------------------------------------------
(* C15 *)

\* C15: on Windows with app_author None, a call of a site accessor, or of a
\* user accessor outside the virtualenv short-circuit, raises the
\* missing-app-author error: it returns no path and creates no directory,
\* also with create=True.
C15_MissingAppAuthor ==
    (Called /\ WINDOWS /\ ~ShortCircuit /\ app.author = None) =>
        /\ ~last.ok
        /\ last.exc = "RuntimeError"
        /\ last.ret = <<>>
        /\ fs = fs_before

\* a user accessor with create=True, inside a virtualenv it was told not to
\* use, raised for the missing app_author
C15_Witness ==
    /\ Called /\ WINDOWS /\ app.author = None
    /\ last.fn \in UserFns /\ in_venv /\ ~last.use_virtualenv
    /\ last.create /\ last.exc = "RuntimeError"
    /\ IsName(app.name)

-----------------------------------------------------------------------------
(* C16 *)

\* the platforms of the three supported conventions
SupportedPlatforms == {"win32", "darwin", "linux", "freebsd"}

\* C16: on a platform of none of the three supported conventions (Windows,
\* macOS, Linux/other Unix) every accessor raises the unsupported-platform
\* error: no path is returned and no directory is created.
C16_UnsupportedPlatform ==
    (Called /\ sys_platform \notin SupportedPlatforms) =>
        /\ ~last.ok
        /\ last.exc = "RuntimeError"
        /\ last.ret = <<>>
        /\ fs = fs_before

-----------------------------------------------------------------------------
(* C17 *)

\* C17: _get_folder called with a folder_type that is none of user_data,
\* user_config, user_state, user_cache, user_log, site_data, site_config fails
\* with an invalid-category error on every platform: it never returns paths.
C17_InvalidCategory ==
    (Called /\ last.fn = "_get_folder" /\ last.folder_type \notin FolderTypes) =>
        /\ ~last.ok
        /\ last.ret = <<>>

-----------------------------------------------------------------------------
(* C18 *)

\* the accessors whose app_name defaults to None
NameOptionalFns ==
    {"user_cache_dir", "user_state_dir", "user_log_dir", "site_data_dirs",
     "site_config_dirs"}

\* C18: user_cache_dir, user_state_dir, user_log_dir, site_data_dirs and
\* site_config_dirs called with app_name None or empty succeed and return the
\* base directory (directories) alone, with no segment for the application.
C18_NoAppNameGivesBase ==
    (/\ Called /\ last.fn \in NameOptionalFns /\ ~IsName(app.name)
     /\ ~(WINDOWS /\ ~ShortCircuit /\ app.author = None)
     /\ ~last.create) =>
        /\ last.ok
        /\ Len(last.paths) = Len(last.bases)
        /\ \A i \in DOMAIN last.paths :
              Segments(last.paths[i]) =
                  Segments(last.bases[i])
                      \o (IF app.version = None THEN <<>> ELSE <<app.version>>)

-----------------------------------------------------------------------------
(* C19 *)

\* C19: idempotence.  An accessor called with create=True and called once more
\* with the same inputs, platform and environment unchanged, succeeds both
\* times and returns the same path(s) both times; the directory exists after
\* the first call and after the second, and the second call changes nothing on
\* the filesystem.
C19_Idempotent ==
    [][(Again /\ last.create /\ last.ok) =>
          /\ last'.ok
          /\ last'.ret = last.ret
          /\ fs' = fs
          /\ \A i \in DOMAIN last.ret : IsDir(last.ret[i], fs)
          /\ \A i \in DOMAIN last.ret : IsDir(last.ret[i], fs')]_vars

-----------------------------------------------------------------------------
(* C20 *)

\* every caller has returned or raised
AllDone == \A c \in Callers : callers[c].pc \in {"returned", "raised"}

\* the call of the callers, made by one caller alone on the initial filesystem
LoneCall ==
    GetFolder(callers[1].folder_type, app.name, app.author, app.version, FALSE,
              callers[1].use_virtualenv, TRUE, fs_before)

\* C20: when two callers run the same accessor at the same time with
\* create=True for a directory that does not exist yet, then under every
\* interleaving of their existence tests and directory creations both calls
\* return the path without error and the directory exists afterwards.
C20_ConcurrentCreate ==
    (/\ AllDone
     /\ LoneCall.ok
     /\ \A i \in DOMAIN LoneCall.paths : ~Exists(LoneCall.paths[i], fs_before)) =>
        \A c \in Callers :
            /\ callers[c].pc = "returned"
            /\ callers[c].final_paths = LoneCall.paths
            /\ \A i \in DOMAIN LoneCall.paths : IsDir(LoneCall.paths[i], fs)

-----------------------------------------------------------------------------
(* C21 *)

\* the final paths of the last call, in the order of the loop
Candidates ==
    [j \in DOMAIN last.bases |-> FinalPath(last.bases[j], app.name, app.version)]

\* the filesystem when the loop of a create=True call reaches path i, no
\* creation having failed before
RECURSIVE Before(_, _)
Before(P, i) ==
    IF i = 1 THEN fs_before
    ELSE LET f == Before(P, i - 1)
         IN  IF Exists(P[i - 1], f) THEN f ELSE Makedirs(P[i - 1], f)

\* the creation of the directory of path i fails
CreationFails(P, i) ==
    LET f == Before(P, i)
    IN  ~Exists(P[i], f) /\ MakedirsRaises(P[i], f)

\* C21: when site_data_dirs / site_config_dirs with create=True resolve
\* several paths and the creation of the directory of the i-th path fails, the
\* call fails at once with that I/O error: no list is returned, and no
\* directory of a later path is created (the filesystem is left as the
\* creations before i made it).
C21_FailFast ==
    (Called /\ last.fn \in SiteFns /\ last.create /\ app.name # None) =>
        \A i \in DOMAIN Candidates :
            (CreationFails(Candidates, i)
                /\ \A j \in 1..(i - 1) : ~CreationFails(Candidates, j)) =>
                    /\ ~last.ok
                    /\ last.exc = "OSError"
                    /\ last.ret = <<>>
                    /\ fs = Before(Candidates, i)

\* site_config_dirs created the directory of the first of three paths, failed
\* on the second, and left the third missing
C21_Witness ==
    /\ Called /\ last.fn = "site_config_dirs" /\ last.create /\ app.name # None
    /\ Len(Candidates) = 3
    /\ CreationFails(Candidates, 2) /\ ~CreationFails(Candidates, 1)
    /\ ~IsDir(Candidates[1], fs_before) /\ IsDir(Candidates[1], fs)
    /\ ~Exists(Candidates[3], fs)
    /\ last.exc = "OSError"

-----------------------------------------------------------------------------
(* C22 *)

\* C22: resolution is deterministic and carries no hidden state: a call made
\* once more with the same accessor and arguments, under the same platform,
\* virtualenv status and environment, returns the same path sequence as
\* before, whatever the earlier call did to the filesystem and whether the
\* create flag is the same or not (compared whenever both calls return).
C22_Deterministic ==
    [][((Again \/ AgainOtherCreate) /\ last.ok /\ last'.ok) =>
          last'.ret = last.ret]_vars

\* a call with create=False returned after the same call with create=True had
\* created directories
C22_Witness ==
    /\ ncalls = 2 /\ last.ok /\ last.create_arg = "False"
    /\ fs \notin {CleanFs(sys_platform), UsedFs(sys_platform)}

-----------------------------------------------------------------------------
(* C23 *)

\* the outcome of the resolver for the last call, had roaming been the other
\* value
OtherRoaming ==
    GetFolder(last.folder_type, app.name, app.author, app.version, ~last.roaming,
              last.use_virtualenv, last.create, fs_before)

\* the calls for which roaming is honored
RoamingHonored ==
    /\ WINDOWS /\ ~ShortCircuit
    /\ last.fn \in {"user_data_dir", "user_config_dir", "user_state_dir"}

\* C23: roaming is honored only for user_data, user_config and user_state on
\* Windows: on macOS and Linux for every category, under the virtualenv
\* short-circuit, and on Windows for user_cache, user_log, site_data and
\* site_config, the outcome of the resolver with roaming=True is its outcome
\* with roaming=False.
C23_RoamingOnlyWindowsUser ==
    (Called /\ ~RoamingHonored) => SameOutcome(OtherRoaming)

\* site_data_dirs returned on Windows, and the resolver returns the same with
\* roaming=True
C23_Witness ==
    /\ Called /\ WINDOWS /\ last.fn = "site_data_dirs" /\ last.ok
    /\ ~last.roaming /\ OtherRoaming.ok

-----------------------------------------------------------------------------
(* C24 *)

\* C24: on Windows outside the virtualenv short-circuit,
\* user_cache_dir(app_name, app_author) returns
\* <local app data>\<AppAuthor>\<AppName>\Cache: the cache subdirectory is the
\* last segment, after the application name.
C24_WindowsCacheLast ==
    (/\ Called /\ WINDOWS /\ ~ShortCircuit /\ last.fn = "user_cache_dir" /\ last.ok
     /\ IsName(app.name) /\ app.version = None) =>
        last.ret = <<SHGetFolderPath(CSIDL_LOCAL_APPDATA)
                        \o <<"\\">> \o app.author \o <<"\\">> \o app.name
                        \o <<"\\", "Cache">> >>

-----------------------------------------------------------------------------
(* C27 *)

\* the Windows folder of the last call: machine-wide for the site accessors,
\* roaming or local for the others
WinFolderOfCall ==
    IF last.fn \in SiteFns THEN SHGetFolderPath(CSIDL_COMMON_APPDATA)
    ELSE IF last.roaming THEN SHGetFolderPath(CSIDL_APPDATA)
    ELSE SHGetFolderPath(CSIDL_LOCAL_APPDATA)

\* C27: on Windows outside the virtualenv short-circuit, user_data_dir,
\* user_config_dir and user_state_dir return the same path for the same
\* inputs, <folder>\<app_author>\<app_name>, folder being the roaming app-data
\* folder (CSIDL_APPDATA) when roaming=True and the local one
\* (CSIDL_LOCAL_APPDATA) otherwise; site_data_dirs and site_config_dirs use the
\* machine-wide folder (CSIDL_COMMON_APPDATA), also when roaming is set.
C27_WindowsFolders ==
    (/\ Called /\ WINDOWS /\ ~ShortCircuit /\ app.author # None /\ IsName(app.name)
     /\ last.fn \in {"user_data_dir", "user_config_dir", "user_state_dir"} \cup SiteFns) =>
        LET tail == IF app.version = None THEN <<>> ELSE <<"\\">> \o app.version
        IN  /\ ~last.create => last.ok
            /\ last.ok =>
                  last.ret = <<WinFolderOfCall \o <<"\\">> \o app.author
                                  \o <<"\\">> \o app.name \o tail>>
            /\ (last.ok /\ last.fn \in SiteFns) => OtherRoaming.paths = last.paths

\* user_config_dir with roaming=True returned the path under the roaming folder
C27_Witness ==
    /\ Called /\ WINDOWS /\ ~ShortCircuit /\ last.ok
    /\ last.fn = "user_config_dir" /\ last.roaming
    /\ app.author = <<"acme">> /\ app.name = <<"app">> /\ app.version = None
    /\ last.ret = << <<"C:", "\\", "Roaming", "\\", "acme", "\\", "app">> >>

-----------------------------------------------------------------------------
(* C28 *)

\* the directories of the returned paths and the directories above them
ReturnedDirs == UNION {Ancestors(Key(last.ret[i])) : i \in DOMAIN last.ret}

\* C28: a call with create=True adds to the filesystem only the directories of
\* the paths it returns and their missing ancestors; each user accessor creates
\* no directory other than the one path it returns and the directories above
\* it, on every platform and for every value of the XDG variables.
C28_CreatesOnlyReturned ==
    (Called /\ last.create /\ last.ok) =>
        /\ (fs.dirs \ fs_before.dirs) \subseteq ReturnedDirs
        /\ fs.files = fs_before.files

-----------------------------------------------------------------------------
(* C30 *)

-----------------------------------------------------------------------------
(* The module appdirs: the same accessors over its own _get_folder, run on  *)
(* the same platform, environment and filesystem.                           *)

AppdirsGetWinFolder(site, roaming, app_author) ==
    IF app_author = None THEN Raises("RuntimeError")
    ELSE LET csidl_const == IF site THEN CSIDL_COMMON_APPDATA
                            ELSE IF roaming THEN CSIDL_APPDATA
                            ELSE CSIDL_LOCAL_APPDATA
         IN  Returns(<<NtJoin(SHGetFolderPath(csidl_const), app_author)>>)

\* the condition of the virtualenv short-circuit: folder_type is not looked at
AppdirsUseVirtualenvFolder(use_virtualenv) == use_virtualenv /\ InVirtualenvFolder

\* paths = [sys.prefix]
AppdirsVirtualenvPaths == Returns(<<SysPrefix>>)

AppdirsWindowsPaths(folder_type, app_author, roaming) ==
    IF folder_type \in {user_data, user_config, user_state}
    THEN WinPath(AppdirsGetWinFolder(FALSE, roaming, app_author), <<>>)
    ELSE IF folder_type = user_cache
    THEN WinPath(AppdirsGetWinFolder(FALSE, FALSE, app_author), <<"Caches">>)
    ELSE IF folder_type = <<"user", "_", "logs">>
    THEN WinPath(AppdirsGetWinFolder(FALSE, FALSE, app_author), <<"Logs">>)
    ELSE WinPath(AppdirsGetWinFolder(TRUE, roaming, app_author), <<>>)

AppdirsMacPaths(folder_type) ==
    IF folder_type \in {user_data, user_config, user_state}
    THEN Returns(<<PosixExpanduser(<<"~", "/", "Library", "/", "Application Support">>)>>)
    ELSE IF folder_type = user_cache
    THEN Returns(<<PosixExpanduser(<<"~", "/", "Library", "/", "Caches">>)>>)
    ELSE IF folder_type = user_log
    THEN Returns(<<PosixExpanduser(<<"~", "/", "Library", "/", "Logs">>)>>)
    ELSE Returns(<<PosixExpanduser(<<"/", "Library", "/", "Application Support">>)>>)

AppdirsLinuxPaths(folder_type) ==
    IF folder_type = user_data
    THEN Returns(<<Getenv("XDG_DATA_HOME",
                          PosixExpanduser(<<"~", "/", ".local", "/", "share">>))>>)
    ELSE IF folder_type = user_config
    THEN Returns(<<Getenv("XDG_CONFIG_HOME", PosixExpanduser(<<"~", "/", ".config">>))>>)
    ELSE IF folder_type = user_state
    THEN Returns(<<Getenv("XDG_STATE_HOME",
                          PosixExpanduser(<<"~", "/", ".local", "/", "state">>))>>)
    ELSE IF folder_type = user_cache
    THEN Returns(<<Getenv("XDG_CACHE_HOME", PosixExpanduser(<<"~", "/", ".cache">>))>>)
    ELSE IF folder_type = site_data
    THEN Returns(SitePaths(Getenv("XDG_DATA_DIRS",
                     JoinWith(<< <<"/", "usr", "/", "local", "/", "share">>,
                                 <<"/", "usr", "/", "share">> >>, ":"))))
    ELSE Returns(SitePaths(Getenv("XDG_CONFIG_DIRS", <<"/", "etc", "/", "xdg">>)))

\* the paths selected before app_name and version are appended; system has
\* one of its three entries set, so the final else is never taken
AppdirsBasePaths(folder_type, app_author, roaming, use_virtualenv) ==
    IF AppdirsUseVirtualenvFolder(use_virtualenv) THEN AppdirsVirtualenvPaths
    ELSE IF WINDOWS THEN AppdirsWindowsPaths(folder_type, app_author, roaming)
    ELSE IF MACOSX THEN AppdirsMacPaths(folder_type)
    ELSE IF LINUX THEN AppdirsLinuxPaths(folder_type)
    ELSE Raises("RuntimeError")

\* the version joined before the application name
AppdirsFinalPathVersionFirst(path, app_name, version) ==
    IF version # None /\ version # <<>> THEN OsJoin(OsJoin(path, version), app_name)
    ELSE OsJoin(path, app_name)

\* "if version:" is false of None and of the empty string
AppdirsFinalPath(path, app_name, version) ==
    LET final_path == OsJoin(path, app_name)
    IN  IF version # None /\ version # <<>> THEN OsJoin(final_path, version)
        ELSE final_path

\* the loop over paths; os.path.join raises TypeError when app_name is None,
\* and os.path.exists(), called without its argument when create is true,
\* raises TypeError before os.makedirs is reached
RECURSIVE AppdirsFinalPaths(_, _, _, _, _, _)
AppdirsFinalPaths(paths, app_name, version, create, f, final_paths) ==
    IF paths = <<>>
    THEN [ok |-> TRUE, exc |-> "", paths |-> final_paths, fs |-> f]
    ELSE IF app_name = None
    THEN [ok |-> FALSE, exc |-> "TypeError", paths |-> <<>>, fs |-> f]
    ELSE LET final_path == AppdirsFinalPath(Head(paths), app_name, version)
         IN  IF create
             THEN [ok |-> FALSE, exc |-> "TypeError", paths |-> <<>>, fs |-> f]
             ELSE AppdirsFinalPaths(Tail(paths), app_name, version, create,
                                    f, Append(final_paths, final_path))

AppdirsGetFolder(folder_type, app_name, app_author, version, roaming, use_virtualenv, create, f) ==
    LET base == AppdirsBasePaths(folder_type, app_author, roaming, use_virtualenv)
    IN  IF ~base.ok
        THEN [ok |-> FALSE, exc |-> base.exc, paths |-> <<>>, bases |-> <<>>, fs |-> f]
        ELSE LET r == AppdirsFinalPaths(base.paths, app_name, version, create, f, <<>>)
             IN  [ok |-> r.ok, exc |-> r.exc, paths |-> r.paths,
                  bases |-> base.paths, fs |-> r.fs]

\* one call of an accessor of appdirs, from entry to return or raise
AppdirsCall(fn, folder_type, single, roaming, use_virtualenv, create_arg, create_default) ==
    /\ ncalls < MaxCalls
    /\ \E create \in {IF create_arg = "omitted" THEN create_default
                       ELSE create_arg = "True"} :
       \E r \in {AppdirsGetFolder(folder_type, app.name, app.author, app.version,
                                  roaming, use_virtualenv, create, fs)} :
       \E no_first \in {r.ok /\ single /\ r.paths = <<>>} :
           /\ fs' = r.fs
           /\ last' = [fn |-> fn, folder_type |-> folder_type,
                       roaming |-> roaming, use_virtualenv |-> use_virtualenv,
                       create_arg |-> create_arg, create |-> create,
                       ok |-> r.ok /\ ~no_first,
                       exc |-> IF no_first THEN "IndexError" ELSE r.exc,
                       bases |-> r.bases,
                       paths |-> r.paths,
                       ret |-> IF r.ok /\ single /\ ~no_first THEN <<r.paths[1]>>
                               ELSE r.paths]
    /\ fs_before' = fs
    /\ ncalls' = ncalls + 1
    /\ UNCHANGED <<sys_platform, in_venv, environ, app, callers>>

appdirs_user_data_dir ==
    \E roaming \in BOOLEAN, use_virtualenv \in BOOLEAN, create_arg \in CreateArgs :
        AppdirsCall("user_data_dir", user_data, TRUE, roaming, use_virtualenv,
                    create_arg, TRUE)

appdirs_user_config_dir ==
    \E roaming \in BOOLEAN, use_virtualenv \in BOOLEAN, create_arg \in CreateArgs :
        AppdirsCall("user_config_dir", user_config, TRUE, roaming, use_virtualenv,
                    create_arg, TRUE)

appdirs_user_cache_dir ==
    \E use_virtualenv \in BOOLEAN, create_arg \in CreateArgs :
        AppdirsCall("user_cache_dir", user_cache, TRUE, FALSE, use_virtualenv,
                    create_arg, TRUE)

appdirs_user_state_dir ==
    \E roaming \in BOOLEAN, use_virtualenv \in BOOLEAN, create_arg \in CreateArgs :
        AppdirsCall("user_state_dir", user_state, TRUE, roaming, use_virtualenv,
                    create_arg, TRUE)

\* user_log_dir returns the list itself
appdirs_user_log_dir ==
    \E use_virtualenv \in BOOLEAN, create_arg \in CreateArgs :
        AppdirsCall("user_log_dir", user_log, FALSE, FALSE, use_virtualenv,
                    create_arg, TRUE)

appdirs_site_data_dir ==
    \E use_virtualenv \in BOOLEAN, create_arg \in CreateArgs :
        AppdirsCall("site_data_dir", site_data, FALSE, FALSE, use_virtualenv,
                    create_arg, FALSE)

appdirs_site_config_dir ==
    \E use_virtualenv \in BOOLEAN, create_arg \in CreateArgs :
        AppdirsCall("site_config_dir", site_config, FALSE, FALSE, use_virtualenv,
                    create_arg, TRUE)

\* the versions a caller may pass: none, the empty string, a version
AppdirsVersions == Versions \cup {<<>>}

InitAppdirs ==
    /\ sys_platform \in Platforms
    /\ in_venv \in BOOLEAN
    /\ environ \in Environments(sys_platform)
    /\ app \in [name : AppNames, author : AppAuthors, version : AppdirsVersions]
    /\ fs \in {CleanFs(sys_platform), UsedFs(sys_platform)}
    /\ fs_before = fs
    /\ last = NoCall
    /\ ncalls = 0
    /\ callers = [c \in Callers |-> Idle]

NextAppdirs ==
    \/ appdirs_user_data_dir
    \/ appdirs_user_config_dir
    \/ appdirs_user_cache_dir
    \/ appdirs_user_state_dir
    \/ appdirs_user_log_dir
    \/ appdirs_site_data_dir
    \/ appdirs_site_config_dir

SpecAppdirs == InitAppdirs /\ [][NextAppdirs]_vars

-----------------------------------------------------------------------------
(* C25 *)

\* C25: in appdirs, an accessor called with create=True (given or by default),
\* a name and, on Windows outside a virtualenv, an author, succeeds, and every
\* path it returns is a directory afterwards, whether or not it was there
\* before.
C25_AppdirsCreate ==
    (/\ Called
     /\ last.create
     /\ IsName(app.name)
     /\ app.author # None) =>
        /\ last.ok
        /\ \A i \in DOMAIN last.ret : IsDir(last.ret[i], fs)

-----------------------------------------------------------------------------
(* C26 *)

\* C26: in appdirs, user_data_dir called with use_virtualenv=True inside a
\* virtualenv, with a name and no version, returns the virtualenv root, then
\* 'data', then the name.
C26_AppdirsVirtualenvData ==
    (/\ Called
     /\ last.fn = "user_data_dir"
     /\ last.use_virtualenv
     /\ in_venv
     /\ last.ok
     /\ app.version = None) =>
        last.ret = <<OsJoin(OsJoin(SysPrefix, <<"data">>), app.name)>>

-----------------------------------------------------------------------------
(* C29 *)

\* the accessors of appdirs that C29 compares, and the ones returning one path
ComparedFns == {"user_data_dir", "user_config_dir", "user_state_dir",
                "user_cache_dir", "site_data_dir", "site_config_dir"}

\* what dwave_appdirs does for the arguments of the last call of appdirs
DwaveOutcome ==
    GetFolder(last.folder_type, app.name, app.author, app.version, last.roaming,
              last.use_virtualenv, last.create, fs_before)

\* C29: for create=False, use_virtualenv=False and a version that is None or
\* a non-empty string, user_data_dir, user_config_dir, user_state_dir and
\* user_cache_dir of appdirs return the path the accessor of the same name of
\* dwave_appdirs returns (the first of its list), site_data_dir and
\* site_config_dir return the list site_data_dirs and site_config_dirs return,
\* and one call raises exactly when the other raises.
C29_ModulesAgree ==
    (/\ Called
     /\ last.fn \in ComparedFns
     /\ ~last.create
     /\ ~last.use_virtualenv
     /\ app.version # <<>>) =>
        /\ last.ok = DwaveOutcome.ok
        /\ last.exc = DwaveOutcome.exc
        /\ last.ok =>
               last.ret = IF last.fn \in UserFns THEN <<DwaveOutcome.paths[1]>>
                          ELSE DwaveOutcome.paths

\* the two modules compared inside a virtualenv, on a list of two paths with
\* a version
C29_Witness ==
    /\ Called
    /\ last.fn = "site_data_dir"
    /\ ~last.create
    /\ ~last.use_virtualenv
    /\ in_venv
    /\ app.version = <<"1.0">>
    /\ last.ok
    /\ Len(last.ret) = 2

====
